---- MODULE Spec2Model ----
(***************************************************************************)
(* BLOOMZ CORE scoring engine: the two variants of the engine,             *)
(* bloomz.app.py (manual library verification, RT reference table) and     *)
(* app.py (simple variant, names prefixed app_), and the scoring loops of  *)
(* their main().                                                           *)
(*                                                                         *)
(* Numbers are fixed point.  Masses are in units of 0.001 (so the default  *)
(* mass_tolerance 0.005 is 5), retention times in units of 0.001 min,      *)
(* sub-scores (mass term, name similarity, plausibility, manual norm) and  *)
(* weights in units of 0.001, the confidence and the RT penalty in units   *)
(* of 0.000001 (a weight times a sub-score), and the reported, rounded     *)
(* values in units of 0.001.  The float values nan, +inf and -inf and the  *)
(* Python values None, "" and unparseable text are distinguished integers  *)
(* outside the range of the numbers of the model; comparison, min and max  *)
(* treat nan the way Python does.                                          *)
(*                                                                         *)
(* name_similarity models the difflib.SequenceMatcher branch; rapidfuzz is *)
(* an optional import that is no part of the repository, and app.py has    *)
(* the difflib branch only.                                                *)
(***************************************************************************)
EXTENDS Integers, Sequences, FiniteSets, TLC

\* ------------------------------------------------------------------------
\* Float and Python value helpers
\* ------------------------------------------------------------------------
NaN == 2000000000
PosInf == 1000000000
NegInf == -1000000000
None == -2000000000
Blank == -2000000001
BadText == -2000000002

IsNumber(x) == x \notin {NaN, PosInf, NegInf, None, Blank, BadText}

\* a < b on floats: every comparison with nan is False
FLt(a, b) == a # NaN /\ b # NaN /\ a < b
FLe(a, b) == a # NaN /\ b # NaN /\ a <= b

\* Python max(a, b): b if b > a else a ; min(a, b): b if b < a else a
PyMax(a, b) == IF FLt(a, b) THEN b ELSE a
PyMin(a, b) == IF FLt(b, a) THEN b ELSE a

FNeg(a) == IF a = NaN THEN NaN ELSE IF a = PosInf THEN NegInf ELSE IF a = NegInf THEN PosInf ELSE -a

FAdd(a, b) ==
  IF a = NaN \/ b = NaN THEN NaN
  ELSE IF a \in {PosInf, NegInf}
       THEN (IF b \in {PosInf, NegInf} /\ b # a THEN NaN ELSE a)
  ELSE IF b \in {PosInf, NegInf} THEN b
  ELSE a + b

FSub(a, b) == FAdd(a, FNeg(b))

FAbs(a) == IF a = NaN THEN NaN ELSE IF a \in {PosInf, NegInf} THEN PosInf ELSE IF a < 0 THEN -a ELSE a

\* a * (c / d) for a finite c and d > 0, rounded toward zero
FScale(a, c, d) ==
  IF a = NaN THEN NaN
  ELSE IF a \in {PosInf, NegInf} THEN (IF c = 0 THEN NaN ELSE IF c < 0 THEN FNeg(a) ELSE a)
  ELSE IF a * c >= 0 THEN (a * c) \div d ELSE -((-(a * c)) \div d)

\* round(x, 3) of a value in units of 0.000001, in units of 0.001 (ties to even)
Round3(x) ==
  IF ~IsNumber(x) THEN x
  ELSE LET ax == IF x < 0 THEN -x ELSE x
           q == ax \div 1000
           r == ax % 1000
           n == IF r > 500 \/ (r = 500 /\ q % 2 = 1) THEN q + 1 ELSE q
       IN IF x < 0 THEN -n ELSE n

\* float(raw) of a cell: raises on None, "" and unparseable text
FloatRaises(raw) == raw \in {None, Blank, BadText}

\* ------------------------------------------------------------------------
\* math.exp and math.log in fixed point
\* ------------------------------------------------------------------------
ExpTerms == 12

RECURSIVE ExpSeries(_, _, _, _, _)
\* sum of the alternating series of exp(-n/d) from term k on, in units of 0.000001
ExpSeries(n, d, k, term, sign) ==
  IF k > ExpTerms \/ term = 0 THEN 0
  ELSE sign * term + ExpSeries(n, d, k + 1, (term * n) \div (d * k), -sign)

\* math.exp(-(n/d)) for 0 <= n <= d, d > 0, in units of 0.001
ExpNeg(n, d) == (ExpSeries(n, d, 1, 1000000, 1) + 500) \div 1000

RECURSIVE Log2Floor(_)
Log2Floor(x) == IF x < 2 THEN 0 ELSE 1 + Log2Floor(x \div 2)

RECURSIVE Pow2(_)
Pow2(k) == IF k = 0 THEN 1 ELSE 2 * Pow2(k - 1)

\* math.log(max(mass, 1e-9)) for a mass in units of 0.001, in units of 0.001
LogMax(mass) ==
  IF mass = NaN THEN NaN
  ELSE IF mass = PosInf THEN PosInf
  ELSE IF mass <= 0 THEN -20723
  ELSE LET k == Log2Floor(mass)
           y == (mass * 4096) \div Pow2(k)
           z == ((y - 4096) * 100000) \div (y + 4096)
           z2 == (z * z) \div 100000
           z3 == (z * z2) \div 100000
           z5 == (z3 * z2) \div 100000
           z7 == (z5 * z2) \div 100000
           lny == 2 * (z + z3 \div 3 + z5 \div 5 + z7 \div 7)
       IN (k * 69315 + lny - 690776 + 50) \div 100

\* ------------------------------------------------------------------------
\* Strings: sequences of one-character strings
\* ------------------------------------------------------------------------
LowerChar(c) ==
  CASE c = "A" -> "a" [] c = "B" -> "b" [] c = "C" -> "c" [] c = "T" -> "t" [] OTHER -> c

Lower(s) == [i \in 1..Len(s) |-> LowerChar(s[i])]

RECURSIVE LStrip(_)
LStrip(s) == IF s # <<>> /\ Head(s) = " " THEN LStrip(Tail(s)) ELSE s

RECURSIVE RStrip(_)
RStrip(s) == IF s # <<>> /\ s[Len(s)] = " " THEN RStrip(SubSeq(s, 1, Len(s) - 1)) ELSE s

Strip(s) == RStrip(LStrip(s))

\* k in cls: k is a substring of cls
Contains(cls, k) ==
  \E i \in 1..(Len(cls) - Len(k) + 1) : SubSeq(cls, i, i + Len(k) - 1) = k

RECURSIVE RunLen(_, _, _, _, _, _)
\* length of the common run of a[i..ahi) and b[j..bhi)
RunLen(a, i, ahi, b, j, bhi) ==
  IF i < ahi /\ j < bhi /\ a[i] = b[j] THEN 1 + RunLen(a, i + 1, ahi, b, j + 1, bhi) ELSE 0

\* SequenceMatcher.find_longest_match: the longest matching block of
\* a[alo..ahi) and b[blo..bhi), the earliest in a and then the earliest in b
find_longest_match(a, alo, ahi, b, blo, bhi) ==
  LET blocks == {<<i, j, RunLen(a, i, ahi, b, j, bhi)>> : i \in alo..(ahi - 1), j \in blo..(bhi - 1)}
      best == CHOOSE m \in blocks :
                \A o \in blocks :
                  \/ m[3] > o[3]
                  \/ m[3] = o[3] /\ m[1] < o[1]
                  \/ m[3] = o[3] /\ m[1] = o[1] /\ m[2] <= o[2]
  IN IF blocks = {} THEN <<alo, blo, 0>> ELSE best

RECURSIVE Matches(_, _, _, _, _, _)
\* SequenceMatcher.get_matching_blocks: the total size of the matching blocks
Matches(a, alo, ahi, b, blo, bhi) ==
  LET m == find_longest_match(a, alo, ahi, b, blo, bhi)
  IN IF m[3] = 0 THEN 0
     ELSE m[3] + Matches(a, alo, m[1], b, blo, m[2])
               + Matches(a, m[1] + m[3], ahi, b, m[2] + m[3], bhi)

\* SequenceMatcher.ratio: 2.0 * matches / (len(a) + len(b)), in units of 0.001
Ratio(a, b) ==
  LET T == Len(a) + Len(b)
      M == Matches(a, 1, Len(a) + 1, b, 1, Len(b) + 1)
  IN (4000 * M + T) \div (2 * T)

name_similarity(a, b) ==
  LET a1 == Lower(Strip(a))
      b1 == Lower(Strip(b))
  IN IF a1 = <<>> \/ b1 = <<>> THEN 0 ELSE Ratio(a1, b1)

RECURSIVE Split(_, _)
\* s.split(sep): the fields of s between the separators
Split(s, sep) ==
  IF \A i \in 1..Len(s) : s[i] # sep THEN <<s>>
  ELSE LET i == CHOOSE n \in 1..Len(s) : s[n] = sep /\ \A m \in 1..(n - 1) : s[m] # sep
       IN <<SubSeq(s, 1, i - 1)>> \o Split(SubSeq(s, i + 1, Len(s)), sep)

\* [k.strip().lower() for k in keyword_csv.split(",") if k.strip()]
Keywords(keyword_csv) ==
  LET f == Split(keyword_csv, ",")
  IN {Lower(Strip(f[i])) : i \in {n \in 1..Len(f) : Strip(f[n]) # <<>>}}

\* ------------------------------------------------------------------------
\* bloomz.app.py: score functions
\* ------------------------------------------------------------------------
plausibility_score(species, blum_class, keyword_csv) ==
  LET cls == Lower(blum_class)
      keywords == Keywords(keyword_csv)
  IN IF keywords = {} THEN 500
     ELSE IF \E k \in keywords : Contains(cls, k) THEN 1000 ELSE 250

\* math.exp(-(err / max(tol, 1e-12))) for an err that passed the gate
ExpGate(err, tol) ==
  IF err = NaN THEN NaN
  ELSE IF tol <= 0 \/ err = 0 THEN 1000
  ELSE ExpNeg(err, tol)

\* mass_term with an exclusive gate: err >= tol gives 0.0
mass_term_exclusive(sample_mz, ref_mz, tol) ==
  LET err == FAbs(FSub(sample_mz, ref_mz))
  IN IF FLe(tol, err) THEN 0 ELSE ExpGate(err, tol)

mass_term(sample_mz, ref_mz, tol) ==
  LET err == FAbs(FSub(sample_mz, ref_mz))
  IN IF FLt(tol, err) THEN 0 ELSE ExpGate(err, tol)

expected_rt_from_mass(mass, a, b) == FAdd(FScale(LogMax(mass), a, 1000), b)

\* rt_penalty without the cap min(0.5, ...) of the heuristic branch
rt_penalty_uncapped(peak_rt, candidate_mass, rt_ref_expected, params) ==
  IF rt_ref_expected # None /\ rt_ref_expected # NaN
  THEN LET delta == FSub(peak_rt, rt_ref_expected)
           over == PyMax(0, FSub(FAbs(delta), params.rt_ref_tolerance))
       IN <<PyMin(500000, FScale(over, 200, 1)), delta>>
  ELSE LET expected == expected_rt_from_mass(candidate_mass, params.expected_rt_a, params.expected_rt_b)
           delta == FSub(peak_rt, expected)
       IN <<IF FLt(delta, 0)
            THEN FScale(FAbs(delta), params.rt_heavy_early_strength, 1)
            ELSE 0,
            delta>>

\* <<penalty, delta>>: the penalty in units of 0.000001, the delta in units of 0.001 min
rt_penalty(peak_rt, candidate_mass, rt_ref_expected, params) ==
  IF rt_ref_expected # None /\ rt_ref_expected # NaN
  THEN LET delta == FSub(peak_rt, rt_ref_expected)
           over == PyMax(0, FSub(FAbs(delta), params.rt_ref_tolerance))
       IN <<PyMin(500000, FScale(over, 200, 1)), delta>>
  ELSE LET expected == expected_rt_from_mass(candidate_mass, params.expected_rt_a, params.expected_rt_b)
           delta == FSub(peak_rt, expected)
       IN <<IF FLt(delta, 0)
            THEN PyMin(500000, FScale(FAbs(delta), params.rt_heavy_early_strength, 1))
            ELSE 0,
            delta>>

\* raw in units of 0.001; the result in units of 0.001
normalize_manual_lib_score(raw) ==
  IF FloatRaises(raw) THEN 500
  ELSE IF FLe(raw, 1000) THEN PyMax(0, PyMin(1000, raw))
  ELSE IF FLe(raw, 100000) THEN PyMax(0, PyMin(1000, FScale(raw, 1, 100)))
  ELSE PyMax(0, PyMin(1000, FScale(raw, 1, 1000)))

\* ------------------------------------------------------------------------
\* Data frames: sequences of records (rows); sort_values
\* ------------------------------------------------------------------------
RECURSIVE SortPerm(_, _, _)
\* the row numbers in `remaining` by descending key.  sort_values uses
\* kind="quicksort", which is not stable: `ties` is the order the build
\* gives to equal keys, table order ("stable") or its reverse ("reversed")
SortPerm(keys, remaining, ties) ==
  IF remaining = {} THEN <<>>
  ELSE LET i == CHOOSE n \in remaining :
                  \A m \in remaining :
                    \/ keys[n] > keys[m]
                    \/ keys[n] = keys[m] /\ (IF ties = "stable" THEN n <= m ELSE n >= m)
       IN <<i>> \o SortPerm(keys, remaining \ {i}, ties)

\* df.sort_values(key, ascending=False)
sort_values_desc(rows, keys, ties) ==
  LET perm == SortPerm(keys, 1..Len(rows), ties)
  IN [i \in 1..Len(rows) |-> rows[perm[i]]]

\* df.head(n)
head(rows, n) == SubSeq(rows, 1, IF n < Len(rows) THEN n ELSE Len(rows))

NoRow == [none |-> TRUE]

\* ------------------------------------------------------------------------
\* bloomz.app.py: candidate filter, ranking, row scoring
\* ------------------------------------------------------------------------
\* candidate_filter with an open gate: < lo .. hi < in place of <= lo .. hi <=
candidate_filter_open(peak_mz, blum, params) ==
  LET lo == FSub(peak_mz, params.mass_tolerance)
      hi == FAdd(peak_mz, params.mass_tolerance)
  IN SelectSeq(blum, LAMBDA e : FLt(lo, e.blum_exact_mass) /\ FLt(e.blum_exact_mass, hi))

\* blum[(blum["blum_exact_mass"] >= lo) & (blum["blum_exact_mass"] <= hi)]
candidate_filter(peak_mz, blum, params) ==
  LET lo == FSub(peak_mz, params.mass_tolerance)
      hi == FAdd(peak_mz, params.mass_tolerance)
  IN SelectSeq(blum, LAMBDA e : FLe(lo, e.blum_exact_mass) /\ FLe(e.blum_exact_mass, hi))

\* the candidates with the columns mass_term, name_sim, plaus, internal_rank
score_candidates(candidates, peak_mz, manual_hit_name, species, plaus_keywords_csv, params) ==
  [i \in 1..Len(candidates) |->
     LET e == candidates[i]
         mt == mass_term(peak_mz, e.blum_exact_mass, params.mass_tolerance)
         ns == name_similarity(manual_hit_name, e.blum_name)
         pl == plausibility_score(species, e.blum_class, plaus_keywords_csv)
     IN [blum_name |-> e.blum_name, blum_exact_mass |-> e.blum_exact_mass,
         blum_class |-> e.blum_class, mass_term |-> mt, name_sim |-> ns, plaus |-> pl,
         internal_rank |-> 550 * mt + 350 * ns + 100 * pl]]

\* pick_result without the .copy(): the filter and the sort act on the library
pick_result_inplace(sorted, blum, params) ==
  IF sorted = <<>>
  THEN [best |-> NoRow, topk |-> <<>>, blum |-> <<>>]
  ELSE [best |-> sorted[1], topk |-> head(sorted, params.top_k_blum),
        blum |-> [i \in 1..Len(sorted) |->
                    [blum_name |-> sorted[i].blum_name,
                     blum_exact_mass |-> sorted[i].blum_exact_mass,
                     blum_class |-> sorted[i].blum_class]]]

\* best and topk of the sorted candidates, and the library table as the call
\* leaves it: the columns are added to a .copy() of the filtered rows
pick_result(sorted, blum, params) ==
  IF sorted = <<>>
  THEN [best |-> NoRow, topk |-> <<>>, blum |-> blum]
  ELSE [best |-> sorted[1], topk |-> head(sorted, params.top_k_blum), blum |-> blum]

\* candidates.sort_values("internal_rank", ascending=False)
rank_candidates(scored, ties) ==
  sort_values_desc(scored, [i \in 1..Len(scored) |-> scored[i].internal_rank], ties)

pick_best_blum_candidate(peak_mz, manual_hit_name, blum, species, plaus_keywords_csv, params, ties) ==
  pick_result(
    rank_candidates(
      score_candidates(candidate_filter(peak_mz, blum, params), peak_mz, manual_hit_name,
                       species, plaus_keywords_csv, params),
      ties),
    blum, params)

\* manual_mz_val of agent_score_row
manual_mz_value(manual_hit_mz) ==
  IF manual_hit_mz # None /\ manual_hit_mz # Blank
  THEN (IF FloatRaises(manual_hit_mz) THEN None ELSE manual_hit_mz)
  ELSE None

\* tmp = rt_ref.copy() with the column name_sim
rt_ref_tmp(rows, cand_name) ==
  [i \in 1..Len(rows) |->
     [rt_ref_name |-> rows[i].rt_ref_name,
      rt_ref_expected_rt |-> rows[i].rt_ref_expected_rt,
      name_sim |-> name_similarity(cand_name, rows[i].rt_ref_name)]]

\* tmp.sort_values("name_sim", ascending=False).head(1)
best_rt_row(tmp, ties) ==
  head(sort_values_desc(tmp, [i \in 1..Len(tmp) |-> tmp[i].name_sim], ties), 1)

\* accepted_rt with the acceptance threshold 0.50 in place of 0.70
accepted_rt_loose(best_rt) ==
  IF best_rt # <<>> /\ best_rt[1].name_sim >= 500 THEN best_rt[1].rt_ref_expected_rt ELSE None

\* the expected RT of the accepted reference row, or None
accepted_rt(best_rt) ==
  IF best_rt # <<>> /\ best_rt[1].name_sim >= 700 THEN best_rt[1].rt_ref_expected_rt ELSE None

\* rt_ref_lookup without the .copy(): name_sim is added to the table itself
rt_ref_lookup_nocopy(rt_ref, cand_name, ties) ==
  IF rt_ref.present /\ rt_ref.rows # <<>>
  THEN [expected |-> accepted_rt(best_rt_row(rt_ref_tmp(rt_ref.rows, cand_name), ties)),
        rt_ref |-> [present |-> TRUE, rows |-> rt_ref_tmp(rt_ref.rows, cand_name)]]
  ELSE [expected |-> None, rt_ref |-> rt_ref]

\* the RT reference lookup of agent_score_row: the expected RT of the row
\* most similar to cand_name when its similarity is >= 0.70, and the RT
\* reference table as the lookup leaves it (name_sim is added to a .copy())
rt_ref_lookup(rt_ref, cand_name, ties) ==
  IF rt_ref.present /\ rt_ref.rows # <<>>
  THEN [expected |-> accepted_rt(best_rt_row(rt_ref_tmp(rt_ref.rows, cand_name), ties)),
        rt_ref |-> rt_ref]
  ELSE [expected |-> None, rt_ref |-> rt_ref]

\* grade_of with exclusive lower bounds
grade_of_exclusive(conf) ==
  IF conf > 900000 THEN "High Confidence"
  ELSE IF conf > 700000 THEN "Probable"
  ELSE IF conf > 500000 THEN "Possible"
  ELSE "Flagged"

\* conf >= 0.90 / 0.70 / 0.50, conf in units of 0.000001
grade_of(conf) ==
  IF conf >= 900000 THEN "High Confidence"
  ELSE IF conf >= 700000 THEN "Probable"
  ELSE IF conf >= 500000 THEN "Possible"
  ELSE "Flagged"

\* clamp_conf without the upper clamp
clamp_conf_lower_only(conf) == PyMax(0, conf)

\* max(0.0, min(1.0, conf))
clamp_conf(conf) == PyMax(0, PyMin(1000000, conf))

\* the mass component of the confidence
mass_component(cand_mass_term, manual_mass_term) == PyMax(cand_mass_term, manual_mass_term)

\* cand_name .. cand_mass_error of agent_score_row, for best_blum and sample_mz
candidate_fields(best_blum, sample_mz) ==
  IF best_blum # NoRow
  THEN [has |-> TRUE, cand_name |-> best_blum.blum_name, cand_mass |-> best_blum.blum_exact_mass,
        cand_class |-> best_blum.blum_class, cand_mass_term |-> best_blum.mass_term,
        cand_name_sim |-> best_blum.name_sim, cand_plaus |-> best_blum.plaus,
        cand_mass_error |-> FSub(best_blum.blum_exact_mass, sample_mz)]
  ELSE [has |-> FALSE, cand_name |-> <<>>, cand_mass |-> NaN, cand_class |-> <<>>,
        cand_mass_term |-> 0, cand_name_sim |-> 0, cand_plaus |-> 500, cand_mass_error |-> NaN]

\* the weighted sum of agent_score_row, before the clamp
conf_sum_of(params, manual_norm, cand_mass_term, manual_mass_term, cand_name_sim, cand_plaus, penalty) ==
  params.w_manual_lib * manual_norm
  + params.w_mass * mass_component(cand_mass_term, manual_mass_term)
  + params.w_name * cand_name_sim
  + params.w_plaus * cand_plaus
  - penalty

locals_record(row, manual_mz_val, manual_norm, mass_gate, picked, c, looked, pen, manual_mass_term, conf_sum, conf) ==
  [mass_gate |-> mass_gate, manual_mz_val |-> manual_mz_val, manual_norm |-> manual_norm,
   has_best |-> c.has, cand_name |-> c.cand_name, cand_mass |-> c.cand_mass, cand_class |-> c.cand_class,
   cand_mass_term |-> c.cand_mass_term, cand_name_sim |-> c.cand_name_sim, cand_plaus |-> c.cand_plaus,
   cand_mass_error |-> c.cand_mass_error, rt_ref_expected |-> looked.expected,
   penalty |-> pen[1], rt_delta |-> pen[2], manual_mass_term |-> manual_mass_term,
   conf_sum |-> conf_sum, conf |-> conf, grade |-> grade_of(conf), topk |-> picked.topk,
   blum |-> picked.blum, rt_ref |-> looked.rt_ref, row |-> row]

locals_scored(row, params, manual_mz_val, manual_norm, mass_gate, picked, c, looked, pen, manual_mass_term) ==
  locals_record(row, manual_mz_val, manual_norm, mass_gate, picked, c, looked, pen, manual_mass_term,
    conf_sum_of(params, manual_norm, c.cand_mass_term, manual_mass_term, c.cand_name_sim, c.cand_plaus, pen[1]),
    clamp_conf(conf_sum_of(params, manual_norm, c.cand_mass_term, manual_mass_term, c.cand_name_sim, c.cand_plaus, pen[1])))

locals_looked(row, params, manual_mz_val, manual_norm, mass_gate, picked, c, looked) ==
  locals_scored(row, params, manual_mz_val, manual_norm, mass_gate, picked, c, looked,
    rt_penalty(row.rt, IF c.cand_mass # NaN THEN c.cand_mass ELSE row.mz, looked.expected, params),
    IF manual_mz_val # None THEN mass_term(row.mz, manual_mz_val, params.mass_tolerance) ELSE 0)

locals_picked(row, rt_ref, params, ties, manual_mz_val, manual_norm, mass_gate, picked, c) ==
  locals_looked(row, params, manual_mz_val, manual_norm, mass_gate, picked, c,
    IF c.has THEN rt_ref_lookup(rt_ref, c.cand_name, ties) ELSE [expected |-> None, rt_ref |-> rt_ref])

locals_manual(row, blum, rt_ref, species, plaus_keywords_csv, params, ties, manual_mz_val, picked) ==
  locals_picked(row, rt_ref, params, ties, manual_mz_val,
    normalize_manual_lib_score(row.manual_lib_score),
    IF manual_mz_val # None
    THEN FLe(FAbs(FSub(row.mz, manual_mz_val)), params.mass_tolerance)
    ELSE FALSE,
    picked, candidate_fields(picked.best, row.mz))

\* the local variables of agent_score_row at its return statement
agent_locals(row, blum, rt_ref, species, plaus_keywords_csv, params, ties) ==
  locals_manual(row, blum, rt_ref, species, plaus_keywords_csv, params, ties,
    manual_mz_value(row.manual_hit_mz),
    pick_best_blum_candidate(row.mz, row.manual_hit_name, blum, species, plaus_keywords_csv, params, ties))

\* the dict agent_score_row returns (the key _topk is topk)
result_dict(v) ==
  [mass_gate |-> IF v.mass_gate THEN "ok" ELSE IF v.manual_mz_val = None THEN "warn" ELSE "fail",
   manual_score_norm |-> v.manual_norm,
   best_blum_name |-> v.cand_name,
   best_blum_exact_mass |-> IF v.cand_mass = NaN THEN None ELSE v.cand_mass,
   best_blum_class |-> v.cand_class,
   blum_mass_error |-> IF v.cand_mass_error = NaN THEN None ELSE v.cand_mass_error,
   name_similarity |-> v.cand_name_sim,
   plausibility |-> v.cand_plaus,
   rt_ref_expected_rt |-> v.rt_ref_expected,
   rt_delta |-> v.rt_delta,
   rt_penalty |-> Round3(v.penalty),
   confidence |-> Round3(v.conf),
   agent_grade |-> v.grade,
   topk |-> v.topk]

agent_score_row(row, blum, rt_ref, species, plaus_keywords_csv, params, ties) ==
  result_dict(agent_locals(row, blum, rt_ref, species, plaus_keywords_csv, params, ties))

\* ------------------------------------------------------------------------
\* app.py: score functions and row scoring
\* ------------------------------------------------------------------------
app_mass_term(sample_mz, ref_mz, tol) ==
  LET err == FAbs(FSub(sample_mz, ref_mz))
  IN IF FLe(err, tol) THEN ExpGate(err, tol) ELSE 0

\* app.py rt_penalty with a late peak penalized like an early one
app_rt_penalty_symmetric(peak_rt, candidate_mass, params) ==
  LET expected == FAdd(FScale(LogMax(candidate_mass), params.expected_rt_a, 1000), params.expected_rt_b)
      delta == FSub(peak_rt, expected)
  IN <<PyMin(500000, FScale(FAbs(delta), params.rt_heavy_early_strength, 1)), delta>>

app_rt_penalty(peak_rt, candidate_mass, params) ==
  LET expected == FAdd(FScale(LogMax(candidate_mass), params.expected_rt_a, 1000), params.expected_rt_b)
      delta == FSub(peak_rt, expected)
  IN <<IF FLt(delta, 0)
       THEN PyMin(500000, FScale(FAbs(delta), params.rt_heavy_early_strength, 1))
       ELSE 0,
       delta>>

app_plausibility_score(species, blum_class, keyword_csv) ==
  LET cls == Lower(blum_class)
      keywords == Keywords(keyword_csv)
  IN IF \E k \in keywords : Contains(cls, k) THEN 1000 ELSE 500

\* cands with the columns mass_term, name_sim, plaus
app_score_candidates(filtered, sample_mz, manual_name, species, plaus_keywords_csv, params) ==
  [i \in 1..Len(filtered) |->
     [blum_name |-> filtered[i].blum_name,
      blum_exact_mass |-> filtered[i].blum_exact_mass,
      blum_class |-> filtered[i].blum_class,
      mass_term |-> app_mass_term(sample_mz, filtered[i].blum_exact_mass, params.mass_tolerance),
      name_sim |-> name_similarity(manual_name, filtered[i].blum_name),
      plaus |-> app_plausibility_score(species, filtered[i].blum_class, plaus_keywords_csv)]]

\* cands.sort_values("mass_term", ascending=False).iloc[0]
app_best(cands, ties) ==
  sort_values_desc(cands, [i \in 1..Len(cands) |-> cands[i].mass_term], ties)[1]

\* app_conf_sum with the manual-library weight in use, on a manual score of 1.0
app_conf_sum_manual(params, best, penalty) ==
  params.w_manual_lib * 1000
  + params.w_mass * best.mass_term + params.w_name * best.name_sim + params.w_plaus * best.plaus - penalty

app_conf_sum(params, best, penalty) ==
  params.w_mass * best.mass_term + params.w_name * best.name_sim + params.w_plaus * best.plaus - penalty

app_locals_record(best, pen, conf_sum, conf) ==
  [empty |-> FALSE, best |-> best, penalty |-> pen[1], rt_delta |-> pen[2],
   conf_sum |-> conf_sum, conf |-> conf, grade |-> grade_of(conf)]

app_locals_pen(params, best, pen) ==
  app_locals_record(best, pen, app_conf_sum(params, best, pen[1]),
                    clamp_conf(app_conf_sum(params, best, pen[1])))

app_locals_best(row, params, best) ==
  app_locals_pen(params, best, app_rt_penalty(row.rt, best.blum_exact_mass, params))

app_locals_cands(row, params, ties, cands) ==
  IF cands = <<>> THEN [empty |-> TRUE] ELSE app_locals_best(row, params, app_best(cands, ties))

\* the local variables of app.py's agent_score_row (best, penalty, conf, grade)
app_locals(row, blum, species, plaus_keywords_csv, params, ties) ==
  app_locals_cands(row, params, ties,
    app_score_candidates(candidate_filter(row.mz, blum, params), row.mz, row.manual_hit_name,
                         species, plaus_keywords_csv, params))

\* the dict app.py's agent_score_row returns
app_result_dict(v) ==
  IF v.empty
  THEN [confidence |-> 0, agent_grade |-> "Flagged", best_blum_name |-> <<"N", "o", "n", "e">>]
  ELSE [best_blum_name |-> v.best.blum_name,
        best_blum_class |-> v.best.blum_class,
        confidence |-> Round3(v.conf),
        agent_grade |-> v.grade,
        rt_delta |-> v.rt_delta,
        rt_penalty |-> Round3(v.penalty)]

app_agent_score_row(row, blum, species, plaus_keywords_csv, params, ties) ==
  app_result_dict(app_locals(row, blum, species, plaus_keywords_csv, params, ties))

\* ------------------------------------------------------------------------
\* Inputs of the model
\* ------------------------------------------------------------------------
MaxLib == 2
MaxPeaks == 2
MaxRuns == 2

nTab == <<"t", "a", "b">>
nCab == <<"c", "a", "b">>
nTabs == <<"t", "a", "b", "s">>
mTab == <<" ", "T", "a", "b">>
cTa == <<"T", "a">>
cCb == <<"c", "b">>
kwTa == <<"t", "a", ",", " ", "B", "c">>
kwNone == <<" ", ",">>

\* AgentParams() with its default field values
DefaultParams ==
  [mass_tolerance |-> 5, top_k_blum |-> 5, rt_ref_tolerance |-> 300,
   rt_heavy_early_strength |-> 250, expected_rt_a |-> 3000, expected_rt_b |-> -5000,
   w_mass |-> 400, w_name |-> 250, w_manual_lib |-> 250, w_plaus |-> 100]

\* weights that sum to more than 1, each as large as the sidebar allows, top_k 1
OverParams ==
  [DefaultParams EXCEPT !.w_mass = 1000, !.w_name = 1000, !.w_manual_lib = 1000,
                        !.w_plaus = 1000, !.top_k_blum = 1]

\* weights outside [0, 1]: negative and larger than 1
NegParams ==
  [DefaultParams EXCEPT !.w_mass = 1500, !.w_name = -2000, !.w_manual_lib = -250, !.w_plaus = -1000]

LibPool ==
  {[blum_name |-> nTab, blum_exact_mass |-> 164084, blum_class |-> cTa],
   [blum_name |-> nCab, blum_exact_mass |-> 164084, blum_class |-> cTa],
   [blum_name |-> nCab, blum_exact_mass |-> 164089, blum_class |-> cCb]}

NoRtRef == [present |-> FALSE, rows |-> <<>>]

RtRefPool ==
  {NoRtRef,
   [present |-> TRUE, rows |-> <<>>],
   [present |-> TRUE,
    rows |-> <<[rt_ref_name |-> nTabs, rt_ref_expected_rt |-> 12000],
               [rt_ref_name |-> nTab, rt_ref_expected_rt |-> 10000]>>]}

\* the sidebar settings, the keyword context, the RT reference table and the
\* order the build's sort gives to equal keys
EnvPool ==
  {[params |-> DefaultParams, kw |-> kwTa, rt_ref |-> NoRtRef, ties |-> "stable"],
   [params |-> DefaultParams, kw |-> kwNone, rt_ref |-> NoRtRef, ties |-> "reversed"]}
  \cup {[params |-> DefaultParams, kw |-> kwTa, rt_ref |-> r, ties |-> "stable"] :
          r \in RtRefPool \ {NoRtRef}}
  \cup {[params |-> DefaultParams, kw |-> kwTa, rt_ref |-> r, ties |-> "reversed"] :
          r \in {x \in RtRefPool : x.rows # <<>>}}
  \cup {[params |-> OverParams, kw |-> kwTa, rt_ref |-> NoRtRef, ties |-> "stable"],
        [params |-> NegParams, kw |-> kwNone, rt_ref |-> NoRtRef, ties |-> "stable"]}

\* the analyst's entries for a peak: hit name, reference m/z, match score
ManualPool ==
  {[manual_hit_name |-> <<>>, manual_hit_mz |-> Blank, manual_lib_score |-> Blank],
   [manual_hit_name |-> mTab, manual_hit_mz |-> 164084, manual_lib_score |-> 1000],
   [manual_hit_name |-> mTab, manual_hit_mz |-> Blank, manual_lib_score |-> 60000],
   [manual_hit_name |-> <<>>, manual_hit_mz |-> 164084, manual_lib_score |-> 300],
   [manual_hit_name |-> nCab, manual_hit_mz |-> BadText, manual_lib_score |-> NaN],
   [manual_hit_name |-> <<>>, manual_hit_mz |-> NaN, manual_lib_score |-> 1000]}

MzPool == {164084, 164094, 164095, NaN, -164084}
RtPool == {5000, 10000, 15000, NaN, PosInf}

\* the rows of the edited peak table, without their peak_id
RowPool ==
  {[rt |-> r, mz |-> m, intensity |-> 1000, manual_hit_name |-> h.manual_hit_name,
    manual_hit_mz |-> h.manual_hit_mz, manual_lib_score |-> h.manual_lib_score] :
     r \in RtPool, m \in MzPool, h \in ManualPool}

\* the rows of the peak tables of more than one peak
BatchRowPool ==
  {p \in RowPool :
     \/ p.rt = 10000 /\ p.mz = 164084 /\ p.manual_hit_name = <<>> /\ p.manual_hit_mz = Blank
     \/ p.rt = 15000 /\ p.mz = 164084 /\ p.manual_hit_name = nCab
     \/ p.rt = NaN /\ p.mz = 164084 /\ p.manual_hit_name = mTab /\ p.manual_hit_mz = 164084
     \/ p.rt = 5000 /\ p.mz = NaN /\ p.manual_hit_name = mTab /\ p.manual_hit_mz = 164084}

SeqsUpTo(S, n) == UNION {[1..k -> S] : k \in 0..n}

\* load_peaks_from_instrument_csv: peak_id is the row number, from 0
WithPeakIds(rows) ==
  [k \in 1..Len(rows) |->
     [peak_id |-> k - 1, rt |-> rows[k].rt, mz |-> rows[k].mz, intensity |-> rows[k].intensity,
      manual_hit_name |-> rows[k].manual_hit_name, manual_hit_mz |-> rows[k].manual_hit_mz,
      manual_lib_score |-> rows[k].manual_lib_score]]

\* no score function is called on its own
NoCall == [fn |-> "none", args |-> <<>>, done |-> FALSE, ret |-> <<>>]

\* ------------------------------------------------------------------------
\* State
\* ------------------------------------------------------------------------
VARIABLES
  program,      \* "bloomz.app.py" or "app.py"
  edited,       \* the peak table that is scored (edited / session_state["peaks"])
  blum,         \* the reference library table
  rt_ref,       \* the RT reference table
  meta,         \* session_state["meta"]: species and plaus_keywords
  params,       \* the AgentParams of the sidebar
  ties,         \* the order the build's quicksort gives to equal keys
  pc,           \* "idle", or "scoring" inside the scoring loop
  todo,         \* the row numbers the loop has not scored yet
  scored_rows,  \* the list the loop appends to
  topk_map,     \* peak_id -> shortlist
  scored,       \* session_state["scored"]
  history,      \* the scored tables of the completed runs, oldest first
  inputs0,      \* the input tables as they were loaded
  max_runs,     \* how often the scoring button is pressed
  call          \* a score function called on its own: its arguments and its result

vars == <<program, edited, blum, rt_ref, meta, params, ties, pc, todo, scored_rows,
          topk_map, scored, history, inputs0, max_runs, call>>

InitWith(rows, lib, env, prog, runs) ==
  /\ program = prog
  /\ edited = WithPeakIds(rows)
  /\ blum = lib
  /\ rt_ref = env.rt_ref
  /\ meta = [species |-> "Nigella sativa", plaus_keywords |-> env.kw]
  /\ params = env.params
  /\ ties = env.ties
  /\ pc = "idle"
  /\ todo = {}
  /\ scored_rows = <<>>
  /\ topk_map = <<>>
  /\ scored = [set |-> FALSE, rows |-> <<>>]
  /\ history = <<>>
  /\ inputs0 = [edited |-> WithPeakIds(rows), blum |-> lib, rt_ref |-> env.rt_ref]
  /\ max_runs = runs
  /\ call = NoCall

Programs == {"bloomz.app.py", "app.py"}

\* one peak, every combination of its fields, scored once
InitRow ==
  \E p \in RowPool, lib \in SeqsUpTo(LibPool, MaxLib), env \in EnvPool, prog \in Programs :
    InitWith(<<p>>, lib, env, prog, 1)

\* a table of peaks, scored `runs` times
InitTable(runs) ==
  \E rows \in SeqsUpTo(BatchRowPool, MaxPeaks), lib \in [1..2 -> LibPool],
     env \in {e \in EnvPool : e.params = DefaultParams /\ e.kw = kwTa}, prog \in Programs :
    InitWith(rows, lib, env, prog, runs)

\* a table of peaks, scored MaxRuns times
InitBatch == InitTable(MaxRuns)

\* a table of peaks, scored once
InitOnce == InitTable(1)

\* peaks whose weighted sum lies less than 0.0005 below a grade threshold
NearThresholdRows ==
  {[rt |-> 10099, mz |-> 164084, intensity |-> 1000, manual_hit_name |-> mTab,
    manual_hit_mz |-> Blank, manual_lib_score |-> Blank],
   [rt |-> 15000, mz |-> 164089, intensity |-> 1000, manual_hit_name |-> nCab,
    manual_hit_mz |-> Blank, manual_lib_score |-> 899]}

\* one such peak and a library of one entry, scored once with the default settings
InitNearThreshold ==
  \E p \in NearThresholdRows, lib \in [1..1 -> LibPool], prog \in Programs :
    InitWith(<<p>>, lib, [params |-> DefaultParams, kw |-> kwTa, rt_ref |-> NoRtRef, ties |-> "stable"],
             prog, 1)

Init == InitRow \/ InitBatch \/ InitNearThreshold

\* ------------------------------------------------------------------------
\* bloomz.app.py main(): the scoring loop
\* ------------------------------------------------------------------------
\* {**dict(r), **out} after out.pop("_topk")
merge_row(r, out) ==
  [f \in (DOMAIN r \cup DOMAIN out) \ {"topk"} |-> IF f \in DOMAIN out THEN out[f] ELSE r[f]]

\* new_scored_rows when the list outlives the run
kept_scored_rows == scored_rows

\* scored_rows = [] ; topk_map = {}
new_scored_rows == <<>>

\* the button "Run BLOOMZ CORE Scoring" is pressed
RunScoring ==
  /\ program = "bloomz.app.py"
  /\ pc = "idle"
  /\ Len(history) < max_runs
  /\ pc' = "scoring"
  /\ todo' = 1..Len(edited)
  /\ scored_rows' = new_scored_rows
  /\ topk_map' = <<>>
  /\ UNCHANGED <<program, edited, blum, rt_ref, meta, params, ties, scored, history, inputs0, max_runs, call>>

\* the body of the loop on row k, with the locals v of the call and its result
ScoreRowWith(k, r, v, out) ==
  /\ topk_map' = [id \in DOMAIN topk_map \cup {r.peak_id} |->
                    IF id = r.peak_id THEN out.topk ELSE topk_map[id]]
  /\ scored_rows' = Append(scored_rows, merge_row(r, out))
  /\ todo' = todo \ {k}
  /\ edited' = [edited EXCEPT ![k] = v.row]
  /\ blum' = v.blum
  /\ rt_ref' = v.rt_ref
  /\ UNCHANGED <<program, meta, params, ties, pc, scored, history, inputs0, max_runs, call>>

ScoreRowCall(k, v) == ScoreRowWith(k, edited[k], v, result_dict(v))

\* one iteration of `for _, r in edited.iterrows()` on row k
ScoreRowAt(k) ==
  ScoreRowCall(k, agent_locals(edited[k], blum, rt_ref, meta.species, meta.plaus_keywords, params, ties))

Min(S) == CHOOSE x \in S : \A y \in S : x <= y

ScoreRow ==
  /\ program = "bloomz.app.py"
  /\ pc = "scoring"
  /\ todo # {}
  /\ ScoreRowAt(Min(todo))

\* scored = pd.DataFrame(scored_rows) ; st.session_state["scored"] = scored
StoreScored ==
  /\ program = "bloomz.app.py"
  /\ pc = "scoring"
  /\ todo = {}
  /\ scored' = [set |-> TRUE, rows |-> scored_rows]
  /\ history' = Append(history, scored_rows)
  /\ pc' = "idle"
  /\ UNCHANGED <<program, edited, blum, rt_ref, meta, params, ties, todo, scored_rows, topk_map, inputs0, max_runs, call>>

\* ------------------------------------------------------------------------
\* app.py main(): peaks.apply(agent_score_row, axis=1) and pd.concat
\* ------------------------------------------------------------------------
\* the button "Activate Spectral Intelligence" is pressed
AppActivate ==
  /\ program = "app.py"
  /\ pc = "idle"
  /\ Len(history) < max_runs
  /\ pc' = "scoring"
  /\ todo' = 1..Len(edited)
  /\ scored_rows' = <<>>
  /\ UNCHANGED <<program, edited, blum, rt_ref, meta, params, ties, topk_map, scored, history, inputs0, max_runs, call>>

\* apply calls agent_score_row on row k
AppScoreRowAt(k) ==
  /\ scored_rows' = Append(scored_rows,
        [peak |-> edited[k],
         out |-> app_agent_score_row(edited[k], blum, meta.species, meta.plaus_keywords, params, ties)])
  /\ todo' = todo \ {k}
  /\ UNCHANGED <<program, edited, blum, rt_ref, meta, params, ties, pc, topk_map, scored, history, inputs0, max_runs, call>>

AppScoreRow ==
  /\ program = "app.py"
  /\ pc = "scoring"
  /\ todo # {}
  /\ AppScoreRowAt(Min(todo))

\* the frame apply builds from the returned Series (the union of their keys,
\* a missing value is NaN), concatenated to the peak table
app_frame(rows, cols) ==
  [n \in 1..Len(rows) |->
     [f \in DOMAIN rows[n].peak \cup cols |->
        IF f \in DOMAIN rows[n].peak THEN rows[n].peak[f]
        ELSE IF f \in DOMAIN rows[n].out THEN rows[n].out[f] ELSE NaN]]

app_concat(rows) == app_frame(rows, UNION {DOMAIN rows[n].out : n \in 1..Len(rows)})

AppStored(table) ==
  /\ scored' = [set |-> TRUE, rows |-> table]
  /\ history' = Append(history, table)

AppStoreScored ==
  /\ program = "app.py"
  /\ pc = "scoring"
  /\ todo = {}
  /\ AppStored(app_concat(scored_rows))
  /\ pc' = "idle"
  /\ UNCHANGED <<program, edited, blum, rt_ref, meta, params, ties, todo, scored_rows, topk_map, inputs0, max_runs, call>>

Next ==
  \/ RunScoring
  \/ ScoreRow
  \/ StoreScored
  \/ AppActivate
  \/ AppScoreRow
  \/ AppStoreScored

Spec == Init /\ [][Next]_vars

\* ------------------------------------------------------------------------
\* The same runs with the rows scored in any order
\* ------------------------------------------------------------------------
ScoreRowAnyOrder ==
  /\ program = "bloomz.app.py"
  /\ pc = "scoring"
  /\ \E k \in todo : ScoreRowAt(k)

AppScoreRowAnyOrder ==
  /\ program = "app.py"
  /\ pc = "scoring"
  /\ \E k \in todo : AppScoreRowAt(k)

NextAnyOrder ==
  \/ RunScoring
  \/ ScoreRowAnyOrder
  \/ StoreScored
  \/ AppActivate
  \/ AppScoreRowAnyOrder
  \/ AppStoreScored

SpecAnyOrder == InitOnce /\ [][NextAnyOrder]_vars

\* ------------------------------------------------------------------------
\* The score functions called on their own
\* ------------------------------------------------------------------------
MaxTol == 5

\* mass_term(sample_mz, ref_mz, tol): tolerances 0.001 .. MaxTol * 0.001 and
\* reference masses on both sides of the sample, inside, on and outside the gate
MassCalls ==
  {<<m, m + d, t>> : m \in {3, 164084}, d \in (-(MaxTol + 2))..(MaxTol + 2), t \in 1..MaxTol}
  \cup {<<NaN, 164084, MaxTol>>, <<164084, NaN, MaxTol>>, <<164084, PosInf, MaxTol>>}

\* normalize_manual_lib_score(raw): the values of the cell "Match Score"
ScoreCalls ==
  {<<raw>> : raw \in {None, Blank, BadText, NaN, PosInf, NegInf, -500, 0, 300, 1000, 1001,
                      60000, 100000, 100001, 850000, 1000000, 2500000}}

\* AgentParams as the sidebar can set the RT fields
RtParamsPool ==
  {DefaultParams,
   [DefaultParams EXCEPT !.rt_heavy_early_strength = 0, !.rt_ref_tolerance = 0],
   [DefaultParams EXCEPT !.rt_heavy_early_strength = 1000, !.rt_ref_tolerance = 2000],
   [DefaultParams EXCEPT !.expected_rt_a = -3000, !.expected_rt_b = 20000]}

RtObservedPool == {0, 5000, 9699, 9700, 10000, 10300, 10301, 12800, 15000, NaN, PosInf, NegInf}
RtMassPool == {200000, 164084, NaN}
RtExpectedPool == {None, NaN, 10000, 12000}

\* rt_penalty(peak_rt, candidate_mass, rt_ref_expected, params)
RtCalls ==
  {<<o, m, e, p>> : o \in RtObservedPool, m \in RtMassPool, e \in RtExpectedPool, p \in RtParamsPool}

\* app.py rt_penalty(peak_rt, candidate_mass, params)
AppRtCalls == {<<o, m, p>> : o \in RtObservedPool, m \in RtMassPool, p \in RtParamsPool}

CallOf(f, a) == [fn |-> f, args |-> a, done |-> FALSE, ret |-> <<>>]

CallPool ==
  {CallOf("mass_term", a) : a \in MassCalls}
  \cup {CallOf("app_mass_term", a) : a \in MassCalls}
  \cup {CallOf("normalize_manual_lib_score", a) : a \in ScoreCalls}
  \cup {CallOf("rt_penalty", a) : a \in RtCalls}
  \cup {CallOf("app_rt_penalty", a) : a \in AppRtCalls}

engine_vars == <<program, edited, blum, rt_ref, meta, params, ties, pc, todo, scored_rows,
                 topk_map, scored, history, inputs0, max_runs>>

\* no table is loaded and no button is pressed; one function is to be called
InitFunctions ==
  /\ \E c \in CallPool : call = c
  /\ program = "score functions"
  /\ edited = <<>>
  /\ blum = <<>>
  /\ rt_ref = NoRtRef
  /\ meta = [species |-> "", plaus_keywords |-> <<>>]
  /\ params = DefaultParams
  /\ ties = "stable"
  /\ pc = "idle"
  /\ todo = {}
  /\ scored_rows = <<>>
  /\ topk_map = <<>>
  /\ scored = [set |-> FALSE, rows |-> <<>>]
  /\ history = <<>>
  /\ inputs0 = [edited |-> <<>>, blum |-> <<>>, rt_ref |-> NoRtRef]
  /\ max_runs = 0

\* the function f is called and returns v
Returns(f, v) ==
  /\ call.fn = f
  /\ ~call.done
  /\ call' = [call EXCEPT !.done = TRUE, !.ret = v]
  /\ UNCHANGED engine_vars

CallMassTerm ==
  /\ call.fn = "mass_term"
  /\ Returns("mass_term", <<mass_term(call.args[1], call.args[2], call.args[3])>>)

CallAppMassTerm ==
  /\ call.fn = "app_mass_term"
  /\ Returns("app_mass_term", <<app_mass_term(call.args[1], call.args[2], call.args[3])>>)

CallNormalize ==
  /\ call.fn = "normalize_manual_lib_score"
  /\ Returns("normalize_manual_lib_score", <<normalize_manual_lib_score(call.args[1])>>)

CallRtPenalty ==
  /\ call.fn = "rt_penalty"
  /\ Returns("rt_penalty", rt_penalty(call.args[1], call.args[2], call.args[3], call.args[4]))

CallAppRtPenalty ==
  /\ call.fn = "app_rt_penalty"
  /\ Returns("app_rt_penalty", app_rt_penalty(call.args[1], call.args[2], call.args[3]))

NextFunctions ==
  \/ CallMassTerm
  \/ CallAppMassTerm
  \/ CallNormalize
  \/ CallRtPenalty
  \/ CallAppRtPenalty

SpecFunctions == InitFunctions /\ [][NextFunctions]_vars

\* ------------------------------------------------------------------------
\* Properties
\* ------------------------------------------------------------------------
IsBloomz == program = "bloomz.app.py"

\* the peak of the n-th entry of scored_rows, and the dict returned for it
PeakOf(n) == IF IsBloomz THEN inputs0.edited[scored_rows[n].peak_id + 1] ELSE scored_rows[n].peak
OutOf(n) == IF IsBloomz THEN scored_rows[n] ELSE scored_rows[n].out

\* the entries of scored_rows once the loop has scored every row
Scored == IF pc = "scoring" /\ todo = {} THEN 1..Len(scored_rows) ELSE {}

\* e is inside the mass gate [m - t, m + t]
InGate(e, m, t) == IsNumber(m) /\ m - t <= e.blum_exact_mass /\ e.blum_exact_mass <= m + t

NoneInGate(peak) ==
  \A i \in 1..Len(inputs0.blum) : ~InGate(inputs0.blum[i], peak.mz, params.mass_tolerance)

CountIn(rows, e) == Cardinality({i \in 1..Len(rows) : rows[i] = e})

\* the confidence before rounding that the program computes for a peak
ConfBloomz(peak) ==
  agent_locals(peak, inputs0.blum, inputs0.rt_ref, meta.species, meta.plaus_keywords, params, ties).conf
ConfAppOf(v) == IF v.empty THEN 0 ELSE v.conf
ConfApp(peak) ==
  ConfAppOf(app_locals(peak, inputs0.blum, meta.species, meta.plaus_keywords, params, ties))
ConfOf(peak) == IF IsBloomz THEN ConfBloomz(peak) ELSE ConfApp(peak)

\* C1: a peak with no library entry inside the mass gate gets confidence 0.0
\* and grade "Flagged", whatever its retention time and manual-hit fields are
C1_NoCandidateZeroFlagged ==
  \A n \in Scored :
    NoneInGate(PeakOf(n)) => OutOf(n).confidence = 0 /\ OutOf(n).agent_grade = "Flagged"

\* C1 in app.py alone, where the empty candidate set returns at once
C1_AppNoCandidateZeroFlagged ==
  ~IsBloomz => C1_NoCandidateZeroFlagged

\* C2: the returned confidence lies in [0, 1] for every weight configuration
C2_ConfidenceClamped ==
  \A n \in Scored :
    /\ 0 <= OutOf(n).confidence /\ OutOf(n).confidence <= 1000
    /\ 0 <= ConfOf(PeakOf(n)) /\ ConfOf(PeakOf(n)) <= 1000000

SumBloomz(peak) ==
  agent_locals(peak, inputs0.blum, inputs0.rt_ref, meta.species, meta.plaus_keywords, params, ties).conf_sum

\* a peak scored under weights that sum to 4, its weighted sum above 1
C2_Witness ==
  /\ IsBloomz
  /\ params.w_mass + params.w_name + params.w_manual_lib + params.w_plaus = 4000
  /\ \E n \in Scored : SumBloomz(PeakOf(n)) > 1000000 /\ OutOf(n).confidence = 1000

\* the grade the fixed thresholds give to a confidence in units of 0.000001
ThresholdGrade(c) ==
  CASE c >= 900000 -> "High Confidence"
    [] c < 900000 /\ c >= 700000 -> "Probable"
    [] c < 700000 /\ c >= 500000 -> "Possible"
    [] c < 500000 -> "Flagged"

\* C3: the grade is a total function of the clamped confidence with inclusive
\* lower bounds 0.90, 0.70, 0.50, and no other grade is produced
C3_GradeByThresholds ==
  \A n \in Scored :
    /\ OutOf(n).agent_grade = ThresholdGrade(ConfOf(PeakOf(n)))
    /\ OutOf(n).agent_grade \in {"High Confidence", "Probable", "Possible", "Flagged"}

\* a peak whose confidence is exactly 0.90 is graded "High Confidence"
C3_Witness ==
  \E n \in Scored : ConfOf(PeakOf(n)) = 900000 /\ OutOf(n).agent_grade = "High Confidence"

\* the library columns of a candidate row
EntryOf(c) == [blum_name |-> c.blum_name, blum_exact_mass |-> c.blum_exact_mass, blum_class |-> c.blum_class]
Entries(rows) == [i \in 1..Len(rows) |-> EntryOf(rows[i])]

GateCount(e, peak) ==
  IF InGate(e, peak.mz, params.mass_tolerance) THEN CountIn(inputs0.blum, e) ELSE 0

\* C4: the candidate set of a peak is exactly the library entries inside the
\* closed mass gate, with multiplicity; the shortlist of bloomz.app.py holds
\* them all when top_k does not cut it
C4_CandidateSetIsGate ==
  \A n \in Scored : \A e \in LibPool :
    /\ CountIn(candidate_filter(PeakOf(n).mz, inputs0.blum, params), e) = GateCount(e, PeakOf(n))
    /\ (IsBloomz /\ params.top_k_blum >= Len(inputs0.blum))
         => CountIn(Entries(topk_map[PeakOf(n).peak_id]), e) = GateCount(e, PeakOf(n))

\* a peak with an entry exactly on the upper boundary of its gate, an entry
\* twice in the library, both in the shortlist
C4_Witness ==
  /\ IsBloomz
  /\ \E n \in Scored : \E e \in LibPool :
       /\ e.blum_exact_mass = PeakOf(n).mz + params.mass_tolerance
       /\ CountIn(inputs0.blum, e) = 2
       /\ CountIn(Entries(topk_map[PeakOf(n).peak_id]), e) = 2

\* the mass term the formula of the specification gives for a reference mass
ClaimMassTerm(m, ref, t) ==
  IF IsNumber(m) /\ IsNumber(ref) /\ (IF m >= ref THEN m - ref ELSE ref - m) <= t
  THEN (IF m = ref THEN 1000 ELSE ExpNeg(IF m >= ref THEN m - ref ELSE ref - m, t))
  ELSE 0

ClaimMax(a, b) == IF a >= b THEN a ELSE b

ClaimClamp(x) == IF x < 0 THEN 0 ELSE IF x > 1000000 THEN 1000000 ELSE x

\* the confidence the formula of the specification gives from the terms of
\* the best candidate, the manual score norm and the RT penalty
ClaimConf(peak, manual_norm, cand_mass_term, name_sim, plaus, penalty) ==
  ClaimClamp(params.w_manual_lib * manual_norm
             + params.w_mass * ClaimMax(cand_mass_term,
                                        ClaimMassTerm(peak.mz, peak.manual_hit_mz, params.mass_tolerance))
             + params.w_name * name_sim
             + params.w_plaus * plaus
             - penalty)

C5_BloomzHolds(peak, v) ==
  v.conf = ClaimConf(peak, v.manual_norm, v.cand_mass_term, v.cand_name_sim, v.cand_plaus, v.penalty)

C5_AppHolds(peak, v) ==
  v.conf = ClaimConf(peak, normalize_manual_lib_score(peak.manual_lib_score),
                     v.best.mass_term, v.best.name_sim, v.best.plaus, v.penalty)

C5_Bloomz(peak) ==
  C5_BloomzHolds(peak,
    agent_locals(peak, inputs0.blum, inputs0.rt_ref, meta.species, meta.plaus_keywords, params, ties))

C5_App(peak) ==
  C5_AppHolds(peak, app_locals(peak, inputs0.blum, meta.species, meta.plaus_keywords, params, ties))

\* C5: for a peak with an in-gate candidate the confidence before rounding is
\* clamp(w_manual_lib * manualScoreNorm + w_mass * max(candidateMassTerm,
\* manualMassTerm) + w_name * nameSimilarity + w_plaus * plausibility - rtPenalty)
C5_ConfidenceFormula ==
  \A n \in Scored :
    ~NoneInGate(PeakOf(n)) => IF IsBloomz THEN C5_Bloomz(PeakOf(n)) ELSE C5_App(PeakOf(n))

\* C5 in bloomz.app.py alone
C5_BloomzConfidenceFormula ==
  IsBloomz => C5_ConfidenceFormula

\* a peak of bloomz.app.py whose manual mass term exceeds its candidate's
C5_BloomzCase ==
  /\ IsBloomz
  /\ \E n \in Scored :
       /\ ~NoneInGate(PeakOf(n))
       /\ topk_map[PeakOf(n).peak_id][1].mass_term
            < ClaimMassTerm(PeakOf(n).mz, PeakOf(n).manual_hit_mz, params.mass_tolerance)

\* C6: the set of result fields is the same for every peak, with or without
\* an in-gate candidate
C6_SameFieldsForEveryPeak ==
  \A n \in Scored : \A m \in Scored : DOMAIN OutOf(n) = DOMAIN OutOf(m)

\* C6 in bloomz.app.py alone, and the fields a peak without candidate gets
C6_BloomzSameFields ==
  IsBloomz =>
    /\ C6_SameFieldsForEveryPeak
    /\ \A n \in Scored :
         NoneInGate(PeakOf(n)) =>
           /\ OutOf(n).best_blum_name = <<>> /\ OutOf(n).best_blum_class = <<>>
           /\ OutOf(n).best_blum_exact_mass = None /\ OutOf(n).blum_mass_error = None

\* a peak with a NaN or negative mass or a NaN or infinite retention time
Anomalous(peak) ==
  \/ peak.mz = NaN
  \/ IsNumber(peak.mz) /\ peak.mz < 0
  \/ ~IsNumber(peak.rt)

HasNoCandidate(out) ==
  IF IsBloomz THEN out.best_blum_name = <<>> ELSE out.best_blum_name = <<"N", "o", "n", "e">>

\* C7: a peak with a NaN or negative mass or a non-finite retention time is
\* reported unscored (no candidate, confidence 0, grade "Flagged") and every
\* other peak of the batch is scored
C7_AnomalousPeakUnscored ==
  /\ (pc = "scoring" /\ todo = {}) => Len(scored_rows) = Len(edited)
  /\ \A n \in Scored :
       Anomalous(PeakOf(n)) =>
         /\ HasNoCandidate(OutOf(n))
         /\ OutOf(n).confidence = 0
         /\ OutOf(n).agent_grade = "Flagged"

\* the part of C7 that holds: a run scores every row of the table
C7_EveryRowGetsAResult ==
  (pc = "scoring" /\ todo = {}) =>
    /\ Len(scored_rows) = Len(edited)
    /\ \A k \in 1..Len(edited) : \E n \in Scored : PeakOf(n) = edited[k]

\* C8: two runs in a row on the same inputs give identical scored tables,
\* row by row and field by field
C8_RunsIdentical ==
  \A a \in 1..Len(history) : \A b \in 1..Len(history) : history[a] = history[b]

\* two completed runs of two peaks, a peak with two candidates of equal rank
C8_Witness ==
  /\ IsBloomz
  /\ Len(history) >= 2
  /\ Len(history[1]) >= 2
  /\ \E id \in DOMAIN topk_map :
       /\ Len(topk_map[id]) = 2
       /\ topk_map[id][1].internal_rank = topk_map[id][2].internal_rank
       /\ topk_map[id][1].blum_name # topk_map[id][2].blum_name

RECURSIVE SeqRows(_, _, _, _), SeqStep(_, _, _)
\* the rows the loop of bloomz.app.py appends when it scores rows k.. in table order
SeqRows(k, rows, lib, ref) ==
  IF k > Len(rows) THEN <<>>
  ELSE SeqStep(k, rows, agent_locals(rows[k], lib, ref, meta.species, meta.plaus_keywords, params, ties))
SeqStep(k, rows, v) ==
  <<merge_row(rows[k], result_dict(v))>> \o SeqRows(k + 1, rows, v.blum, v.rt_ref)

\* the scored table of a run in table order
SequentialTable ==
  IF IsBloomz THEN SeqRows(1, inputs0.edited, inputs0.blum, inputs0.rt_ref)
  ELSE app_concat([k \in 1..Len(inputs0.edited) |->
                     [peak |-> inputs0.edited[k],
                      out |-> app_agent_score_row(inputs0.edited[k], inputs0.blum, meta.species,
                                                  meta.plaus_keywords, params, ties)]])

SameAsSequential(seq) ==
  \A a \in 1..Len(history) :
    /\ Len(history[a]) = Len(seq)
    /\ \A n \in 1..Len(history[a]) : history[a][n] = seq[history[a][n].peak_id + 1]

\* C9: scored in any order, every peak_id gets the result that sequential
\* scoring in table order gives it
C9_OrderIndependent ==
  (pc = "idle" /\ history # <<>>) => SameAsSequential(SequentialTable)

\* a completed run that scored a later row of the table before an earlier one
C9_Witness ==
  /\ pc = "idle"
  /\ Len(history) >= 1
  /\ \E a \in 1..Len(history) : \E n \in 1..Len(history[a]) : \E m \in 1..Len(history[a]) :
       /\ n < m
       /\ history[a][n].peak_id > history[a][m].peak_id
       /\ history[a][n].agent_grade # history[a][m].agent_grade

LibraryColumns == {"blum_name", "blum_exact_mass", "blum_class"}
RtRefColumns == {"rt_ref_name", "rt_ref_expected_rt"}

\* C10: scoring leaves the peak rows, the library table and the RT reference
\* table as they were loaded; the score columns are on copies only
C10_InputsUnchanged ==
  /\ edited = inputs0.edited
  /\ blum = inputs0.blum
  /\ rt_ref = inputs0.rt_ref
  /\ \A i \in 1..Len(blum) : DOMAIN blum[i] = LibraryColumns
  /\ \A i \in 1..Len(rt_ref.rows) : DOMAIN rt_ref.rows[i] = RtRefColumns

\* a finished loop of bloomz.app.py that ranked candidates and accepted a row
\* of the RT reference table
C10_Witness ==
  /\ IsBloomz
  /\ rt_ref.rows # <<>>
  /\ \E n \in Scored :
       /\ OutOf(n).rt_ref_expected_rt # None
       /\ Len(topk_map[PeakOf(n).peak_id]) >= 1
       /\ "internal_rank" \in DOMAIN topk_map[PeakOf(n).peak_id][1]

\* ------------------------------------------------------------------------
\* Properties of the score functions
\* ------------------------------------------------------------------------
Dist(a, b) == IF a >= b THEN a - b ELSE b - a
Min2(a, b) == IF a <= b THEN a ELSE b
Max2(a, b) == IF a >= b THEN a ELSE b

\* a finished call of mass_term of either variant, on two masses and a tolerance > 0
MassTermCalled ==
  /\ call.done
  /\ call.fn \in {"mass_term", "app_mass_term"}
  /\ IsNumber(call.args[1]) /\ IsNumber(call.args[2])
  /\ call.args[3] > 0

MassTermGate(d, t, ret) ==
  /\ d > t => ret = 0
  /\ d <= t => ret = ExpNeg(d, t) /\ ret > 0
  /\ d = t => ret = 368
  /\ d = 0 => ret = 1000

\* C11: for a tolerance t > 0 and masses at distance d, mass_term is 0 when
\* d > t and exp(-d/t) > 0 when d <= t; d = t gives exp(-1) and d = 0 gives 1.0
C11_MassTermGate ==
  MassTermCalled => MassTermGate(Dist(call.args[1], call.args[2]), call.args[3], call.ret[1])

\* mass_term on the boundary of a gate that is not the default one
C11_Witness ==
  /\ MassTermCalled
  /\ call.fn = "mass_term"
  /\ call.args[3] = 3
  /\ call.args[2] = call.args[1] + 3
  /\ call.ret[1] = 368

NormalizeCalled == call.done /\ call.fn = "normalize_manual_lib_score"

\* the scale rule on a numeric raw score (units of 0.001), clamped to [0, 1]
ScaleRule(raw) ==
  IF raw = PosInf THEN 1000
  ELSE IF raw = NegInf \/ raw < 0 THEN 0
  ELSE IF raw <= 1000 THEN raw
  ELSE IF raw <= 100000 THEN raw \div 100
  ELSE Min2(1000, raw \div 1000)

\* C12: normalize_manual_lib_score maps into [0, 1] by the scale rule, and
\* None, a blank cell, unparseable text and NaN give the default 0.5
C12_ScaleRuleOrDefault ==
  NormalizeCalled =>
    /\ 0 <= call.ret[1] /\ call.ret[1] <= 1000
    /\ call.args[1] \in {None, Blank, BadText, NaN} => call.ret[1] = 500
    /\ call.args[1] \notin {None, Blank, BadText, NaN} => call.ret[1] = ScaleRule(call.args[1])

\* the part of C12 that holds: the range, the scale rule on numbers and the
\* default for None, a blank cell and unparseable text
C12_ScaleRuleOnNumbers ==
  NormalizeCalled =>
    /\ 0 <= call.ret[1] /\ call.ret[1] <= 1000
    /\ call.args[1] \in {None, Blank, BadText} => call.ret[1] = 500
    /\ call.args[1] \notin {None, Blank, BadText, NaN} => call.ret[1] = ScaleRule(call.args[1])

\* what normalize_manual_lib_score returns for NaN
C12_NaNGivesOne ==
  (NormalizeCalled /\ call.args[1] = NaN) => call.ret[1] = 1000

RtPenaltyCalled == call.done /\ call.fn \in {"rt_penalty", "app_rt_penalty"}

\* the explicit expected RT and the AgentParams of a call of rt_penalty
ExplicitOf(c) == IF c.fn = "rt_penalty" THEN c.args[3] ELSE None
ParamsOf(c) == IF c.fn = "rt_penalty" THEN c.args[4] ELSE c.args[3]

ExplicitRule(o, e, p) ==
  <<Min2(500000, Max2(0, Dist(o, e) - p.rt_ref_tolerance) * 200), o - e>>

\* the penalty and delta of the fallback rule for the heuristic expected RT h
FallbackRule(o, h, p) ==
  <<IF o - h < 0 THEN Min2(500000, (h - o) * p.rt_heavy_early_strength) ELSE 0, o - h>>

HeuristicOf(c) ==
  expected_rt_from_mass(c.args[2], ParamsOf(c).expected_rt_a, ParamsOf(c).expected_rt_b)

\* C14: with an explicit expected RT e the penalty is
\* min(0.5, max(0, |observedRt - e| - rt_ref_tolerance) * 0.20); without one it is
\* min(0.5, |delta| * rt_heavy_early_strength) for delta < 0 and 0 for delta >= 0
C14_PenaltyRule ==
  (RtPenaltyCalled /\ IsNumber(call.args[1])) =>
    IF ExplicitOf(call) \notin {None, NaN}
    THEN call.ret = ExplicitRule(call.args[1], ExplicitOf(call), ParamsOf(call))
    ELSE IsNumber(call.args[2]) =>
           call.ret = FallbackRule(call.args[1], HeuristicOf(call), ParamsOf(call))

\* the fallback branch of app.py on a peak that elutes 4 min late: no penalty
C14_Witness ==
  /\ RtPenaltyCalled
  /\ call.fn = "app_rt_penalty"
  /\ call.args[1] = 15000 /\ call.args[2] = 200000 /\ call.args[3] = DefaultParams
  /\ call.ret[2] > 4000
  /\ call.ret[1] = 0

\* the explicit branch on a late peak: 2.8 min late, 2.5 min past the tolerance,
\* penalized like an early one
C14_ExplicitCase ==
  /\ RtPenaltyCalled
  /\ call.fn = "rt_penalty"
  /\ call.args[1] = 12800
  /\ call.args[3] = 10000
  /\ call.args[4] = DefaultParams
  /\ call.ret = <<500000, 2800>>

\* ------------------------------------------------------------------------
\* Properties of the RT reference lookup, the ranking and the reported fields
\* ------------------------------------------------------------------------
\* the similarity of a candidate name to the i-th row of the loaded RT reference table
RefSim(name, i) == name_similarity(name, inputs0.rt_ref.rows[i].rt_ref_name)

\* the rows of the RT reference table whose name is most similar to `name`
MostSimilarRefRows(name) ==
  {i \in 1..Len(inputs0.rt_ref.rows) :
     \A j \in 1..Len(inputs0.rt_ref.rows) : RefSim(name, i) >= RefSim(name, j)}

\* the peak has a best candidate, and a row of a supplied RT reference table
\* is similar to its name by 0.70 or more
ReferenceAccepted(out) ==
  /\ out.best_blum_name # <<>>
  /\ inputs0.rt_ref.present
  /\ \E i \in 1..Len(inputs0.rt_ref.rows) : RefSim(out.best_blum_name, i) >= 700

\* the expected RT of the heuristic fallback model for the reported candidate
FallbackExpected(peak, out) ==
  expected_rt_from_mass(IF out.best_blum_exact_mass = None THEN peak.mz ELSE out.best_blum_exact_mass,
                        params.expected_rt_a, params.expected_rt_b)

UsesReference(peak, out) ==
  \E i \in MostSimilarRefRows(out.best_blum_name) :
    /\ out.rt_ref_expected_rt = inputs0.rt_ref.rows[i].rt_ref_expected_rt
    /\ out.rt_delta = FSub(peak.rt, inputs0.rt_ref.rows[i].rt_ref_expected_rt)

UsesFallback(peak, out) ==
  /\ out.rt_ref_expected_rt = None
  /\ out.rt_delta = FSub(peak.rt, FallbackExpected(peak, out))

\* C15: the explicit-reference branch is used if and only if the peak has a
\* best candidate, an RT reference table is supplied and non-empty, and the
\* row most similar to the candidate's name has similarity >= 0.70; it then
\* uses that row's expected RT.  Otherwise rt_ref_expected_rt is empty and
\* the heuristic fallback model is used
C15_ReferenceBranch ==
  IsBloomz =>
    \A n \in Scored :
      IF ReferenceAccepted(OutOf(n)) THEN UsesReference(PeakOf(n), OutOf(n))
      ELSE UsesFallback(PeakOf(n), OutOf(n))

\* a peak whose candidate takes the second row of the RT reference table, the
\* first row being similar by 0.70 or more as well
C15_Witness ==
  /\ IsBloomz
  /\ Len(inputs0.rt_ref.rows) = 2
  /\ \E n \in Scored :
       /\ ReferenceAccepted(OutOf(n))
       /\ RefSim(OutOf(n).best_blum_name, 1) >= 700
       /\ MostSimilarRefRows(OutOf(n).best_blum_name) = {2}
       /\ OutOf(n).rt_ref_expected_rt = inputs0.rt_ref.rows[2].rt_ref_expected_rt

\* a peak with a candidate and a non-empty RT reference table whose most
\* similar row is below 0.70: the fallback model is used
C15_RejectedCase ==
  /\ IsBloomz
  /\ inputs0.rt_ref.rows # <<>>
  /\ \E n \in Scored :
       /\ OutOf(n).best_blum_name # <<>>
       /\ ~ReferenceAccepted(OutOf(n))
       /\ OutOf(n).rt_ref_expected_rt = None

\* the library entries inside the mass gate of a peak, in table order
GateRows(peak) ==
  SelectSeq(inputs0.blum, LAMBDA e : InGate(e, peak.mz, params.mass_tolerance))

\* the weighted blend of mass term, name similarity and plausibility of a
\* library entry for a peak, with the score functions of the running variant
BlendOf(e, peak) ==
  IF IsBloomz
  THEN 550 * mass_term(peak.mz, e.blum_exact_mass, params.mass_tolerance)
       + 350 * name_similarity(peak.manual_hit_name, e.blum_name)
       + 100 * plausibility_score(meta.species, e.blum_class, meta.plaus_keywords)
  ELSE 550 * app_mass_term(peak.mz, e.blum_exact_mass, params.mass_tolerance)
       + 350 * name_similarity(peak.manual_hit_name, e.blum_name)
       + 100 * app_plausibility_score(meta.species, e.blum_class, meta.plaus_keywords)

\* e is the entry the result reports as best
IsReported(e, out) ==
  /\ e.blum_name = out.best_blum_name
  /\ e.blum_class = out.best_blum_class
  /\ IsBloomz => e.blum_exact_mass = out.best_blum_exact_mass

\* the reported best is an in-gate entry of rank >= that of every in-gate entry
BestIsTopRanked(peak, out, gate) ==
  \E i \in 1..Len(gate) :
    /\ IsReported(gate[i], out)
    /\ \A j \in 1..Len(gate) : BlendOf(gate[i], peak) >= BlendOf(gate[j], peak)

\* the shortlist is the min(top_k, n) highest-ranked in-gate entries in
\* non-increasing rank order, the reported best first
ShortlistIsTopK(peak, out, gate, topk) ==
  /\ Len(topk) = Min2(params.top_k_blum, Len(gate))
  /\ IsReported(topk[1], out)
  /\ \A i \in 1..Len(topk) :
       /\ topk[i].internal_rank = BlendOf(EntryOf(topk[i]), peak)
       /\ CountIn(Entries(topk), EntryOf(topk[i])) <= CountIn(gate, EntryOf(topk[i]))
  /\ \A i \in 1..(Len(topk) - 1) : topk[i].internal_rank >= topk[i + 1].internal_rank
  /\ \A j \in 1..Len(gate) :
       BlendOf(gate[j], peak) > topk[Len(topk)].internal_rank
         => CountIn(Entries(topk), gate[j]) = CountIn(gate, gate[j])

\* the confidence and grade of a peak scored with a shortlist of one
WithShortlistOfOne(peak) ==
  agent_score_row(peak, inputs0.blum, inputs0.rt_ref, meta.species, meta.plaus_keywords,
                  [params EXCEPT !.top_k_blum = 1], ties)

SameConfidence(out, other) ==
  out.confidence = other.confidence /\ out.agent_grade = other.agent_grade

C16_Ranked(peak, out, gate) ==
  gate # <<>> =>
    /\ BestIsTopRanked(peak, out, gate)
    /\ IsBloomz =>
         /\ ShortlistIsTopK(peak, out, gate, topk_map[peak.peak_id])
         /\ SameConfidence(out, WithShortlistOfOne(peak))

\* C16: for a peak with n >= 1 in-gate candidates the reported best has an
\* internal rank (blend of mass term, name similarity, plausibility) >= that
\* of every in-gate candidate; the shortlist is the min(top_k, n) highest
\* ranked in non-increasing order, best first, and does not influence the
\* confidence or the grade
C16_BestIsTopRanked ==
  \A n \in Scored : C16_Ranked(PeakOf(n), OutOf(n), GateRows(PeakOf(n)))

\* C16 in bloomz.app.py alone, which sorts by internal_rank
C16_BloomzBestIsTopRanked ==
  IsBloomz => C16_BestIsTopRanked

\* a peak of bloomz.app.py with two in-gate candidates of different rank, the
\* second of the library reported, the shortlist cut to one
C16_BloomzCase ==
  /\ IsBloomz
  /\ params.top_k_blum = 1
  /\ \E n \in Scored :
       /\ Len(GateRows(PeakOf(n))) = 2
       /\ Len(topk_map[PeakOf(n).peak_id]) = 1
       /\ BlendOf(GateRows(PeakOf(n))[2], PeakOf(n)) > BlendOf(GateRows(PeakOf(n))[1], PeakOf(n))
       /\ IsReported(GateRows(PeakOf(n))[2], OutOf(n))

\* the grade the fixed thresholds give to a reported confidence (units of 0.001)
ReportedGrade(c) ==
  IF c >= 900 THEN "High Confidence"
  ELSE IF c >= 700 THEN "Probable"
  ELSE IF c >= 500 THEN "Possible"
  ELSE "Flagged"

\* C17: the reported grade is the grade the thresholds 0.90, 0.70, 0.50 give
\* to the reported confidence, the confidence rounded to 3 decimals
C17_GradeOfReportedConfidence ==
  \A n \in Scored : OutOf(n).agent_grade = ReportedGrade(OutOf(n).confidence)

\* what the two variants report for a weighted sum just below a threshold:
\* the confidence rounded up to the threshold, the grade of the band below it
C17_RoundedUpCase ==
  \E n \in Scored :
    \/ IsBloomz /\ OutOf(n).confidence = 900 /\ OutOf(n).agent_grade = "Probable"
    \/ ~IsBloomz /\ OutOf(n).confidence = 700 /\ OutOf(n).agent_grade = "Possible"

\* the weights app.py uses are the defaults of its AgentParams
AppDefaultWeights == params.w_mass = 400 /\ params.w_name = 250 /\ params.w_plaus = 100

AppWeightRaised == params.w_mass > 400 \/ params.w_name > 250 \/ params.w_plaus > 100

C18_Bounded(out, conf) ==
  /\ AppDefaultWeights =>
       /\ conf <= 750000
       /\ out.confidence <= 750
       /\ out.agent_grade # "High Confidence"
  /\ out.agent_grade = "High Confidence" => AppWeightRaised

\* C18: in app.py with the default weights (0.40 mass, 0.25 name, 0.10
\* plausibility) the confidence of a peak is at most 0.75 and no peak is graded
\* "High Confidence"; the grade is reached only with a weight above its default
C18_AppDefaultBelowHigh ==
  ~IsBloomz => \A n \in Scored : C18_Bounded(OutOf(n), ConfApp(PeakOf(n)))

\* a peak of app.py with the default weights whose confidence is 0.75: mass
\* term, name similarity and plausibility all 1.0 and no RT penalty
C18_Witness ==
  /\ ~IsBloomz
  /\ AppDefaultWeights
  /\ \E n \in Scored :
       /\ OutOf(n).confidence = 750
       /\ OutOf(n).agent_grade = "Probable"
       /\ OutOf(n).rt_penalty = 0

\* a peak of app.py graded "High Confidence" with every weight at 1.0
C18_RaisedCase ==
  /\ ~IsBloomz
  /\ params.w_mass = 1000
  /\ \E n \in Scored : OutOf(n).agent_grade = "High Confidence"

====
